---- MODULE Spec2Model ----
(***************************************************************************)
(* A model of dbg-rs: the Dbg facade over the DbgEng COM interfaces        *)
(* (src/src/dbg.rs), its error type (src/src/error.rs) and the             *)
(* list_modules example extension (src/examples/src/lib.rs).               *)
(*                                                                         *)
(* Text is a sequence of bytes (0..255).  Every facade method is a pure    *)
(* operator from its arguments and the engine's answers to the record      *)
(* [calls, res] (plus the engine's module table where the method changes   *)
(* it): calls is the sequence of foreign calls the method issued, in       *)
(* order, res is the Result it returned.  One action applies one method.   *)
(***************************************************************************)
EXTENDS Integers, Sequences, FiniteSets

(***************************************************************************)
(* Bounds of the model.                                                    *)
(***************************************************************************)
\* longest caller-supplied text (commands, messages, names)
MaxText == 2
\* longest register-name / register-index list
MaxNames == 3
\* most entries the engine's module table holds
MaxModules == 3
\* highest address a typed or raw read starts at
MaxAddr == 16
\* longest buffer a raw read is given
MaxRead == 3

(***************************************************************************)
(* Engine constants the source names.                                      *)
(***************************************************************************)
DEBUG_OUTCTL_ALL_CLIENTS == 1
DEBUG_EXECUTE_DEFAULT == 0
DEBUG_OUTPUT_NORMAL == 1
DEBUG_OUTPUT_ERROR == 2
DEBUG_ADDSYNTHMOD_DEFAULT == 0
DEBUG_VALUE_INT64 == 4
\* the working buffer of get_symbol_name and the bound of read_cstr
NameBufLen == 1024
CstrMaxBytes == 256

\* HRESULTs: an i32, a failure iff negative (0x80004004, 0x80004005,
\* 0x80004002, 0x80070057 as two's complement).
S_OK == 0
S_FALSE == 1
E_ABORT == -2147467260
E_FAIL == -2147467259
E_NOINTERFACE == -2147467262
E_INVALIDARG == -2147024809

\* the outcomes the engine may give a call that has no other meaning here
HResults == {S_OK, E_FAIL, E_INVALIDARG}

\* HRESULT::is_ok: the value is non-negative
IsOk(hr) == hr >= 0

(***************************************************************************)
(* Results and errors (src/src/error.rs).                                  *)
(***************************************************************************)
Ok(v) == [ok |-> TRUE, val |-> v]
Err(e) == [ok |-> FALSE, err |-> e]
Unit == "()"

DbgGeneralError(m) == [kind |-> "DbgGeneralError", msg |-> m]
InvalidSize(n) == [kind |-> "InvalidSize", size |-> n]
WindowsError(hr) == [kind |-> "WindowsError", code |-> hr]
InvalidString(pos, bytes) == [kind |-> "InvalidString", pos |-> pos, bytes |-> bytes]
IoError == [kind |-> "IoError"]

\* one foreign call: the entry point, its arguments, the HRESULT it returned
Call(api, args, hr) == [api |-> api, args |-> args, hr |-> hr]

(***************************************************************************)
(* Text helpers.                                                           *)
(***************************************************************************)
Min(a, b) == IF a < b THEN a ELSE b

\* all byte sequences over alphabet A of length at most n
RECURSIVE SeqsUpTo(_, _)
SeqsUpTo(A, n) ==
  IF n = 0 THEN {<<>>}
  ELSE LET S == SeqsUpTo(A, n - 1)
       IN S \cup {Append(s, a) : s \in {t \in S : Len(t) = n - 1}, a \in A}

\* the concatenation of the sequences f[lo..hi] of a sequence of sequences
RECURSIVE Flatten(_, _, _)
Flatten(f, lo, hi) ==
  IF lo > hi THEN <<>>
  ELSE IF lo = hi THEN f[lo]
  ELSE LET mid == (lo + hi) \div 2
       IN Flatten(f, lo, mid) \o Flatten(f, mid + 1, hi)

HasNul(s) == \E i \in 1..Len(s) : s[i] = 0

\* 0-based position of the first nul byte of s (s holds one)
NulPos(s) == (CHOOSE i \in 1..Len(s) : s[i] = 0 /\ \A j \in 1..(i - 1) : s[j] # 0) - 1

\* CString::new: refuses an interior nul, else appends the terminator
CStringNew(s) ==
  IF HasNul(s) THEN Err(InvalidString(NulPos(s), s))
  ELSE Ok(Append(s, 0))

\* what the engine reads through a PCSTR: the bytes before the first nul
PCSTR(c) == IF HasNul(c) THEN SubSeq(c, 1, NulPos(c)) ELSE c

\* decimal digits of a natural number, as text
RECURSIVE Dec(_)
Dec(n) == IF n < 10 THEN <<48 + n>> ELSE Append(Dec(n \div 10), 48 + (n % 10))

HexDigit(d) == IF d < 10 THEN 48 + d ELSE 55 + d

\* {:08X} of an i32: the eight upper-case hexadecimal digits of its two's
\* complement (for n < 0 the low 31 bits are n + 2^31, and the top bit is set)
Hex8(n) ==
  LET low == IF n < 0 THEN (n + 2147483647) + 1 ELSE n
      top == IF n < 0 THEN 8 ELSE 0
  IN [i \in 1..8 |->
        HexDigit(((low \div (16 ^ (8 - i))) % 16) + (IF i = 1 THEN top ELSE 0))]

\* {:#X}: upper-case hexadecimal digits, no padding
RECURSIVE HexU(_)
HexU(n) == IF n < 16 THEN <<HexDigit(n)>> ELSE Append(HexU(n \div 16), HexDigit(n % 16))

\* Debug of a byte list: [97, 0, 98]
DecList(s) ==
  Flatten([i \in 1..Len(s) |-> (IF i = 1 THEN <<>> ELSE <<44, 32>>) \o Dec(s[i])], 1, Len(s))

\* char::escape_debug, on the bytes of the model's alphabet
EscapeByte(b) ==
  IF b = 0 THEN <<92, 48>>
  ELSE IF b = 10 THEN <<92, 110>>
  ELSE IF b = 34 THEN <<92, 34>>
  ELSE IF b = 92 THEN <<92, 92>>
  ELSE <<b>>

EscapeDebug(s) == Flatten([i \in 1..Len(s) |-> EscapeByte(s[i])], 1, Len(s))

\* the system's message text for an HRESULT (FormatMessage), as the engine's
\* host provides it; the text of E_INVALIDARG carries a nul and a quote
MessageOf(hr) ==
  IF hr = E_FAIL THEN <<85, 110, 115, 112, 101, 99>>
  ELSE IF hr = E_INVALIDARG THEN <<98, 97, 100, 0, 34>>
  ELSE <<>>

\* {:?} of a DbgError
DebugFmt(e) ==
  IF e.kind = "InvalidString"
    THEN <<73, 110, 118, 97, 108, 105, 100, 83, 116, 114, 105, 110, 103, 40,
           78, 117, 108, 69, 114, 114, 111, 114, 40>>
         \o Dec(e.pos) \o <<44, 32, 91>> \o DecList(e.bytes) \o <<93, 41, 41>>
  ELSE IF e.kind = "WindowsError"
    THEN <<87, 105, 110, 100, 111, 119, 115, 69, 114, 114, 111, 114, 40, 69,
           114, 114, 111, 114, 32, 123, 32, 99, 111, 100, 101, 58, 32, 72, 82,
           69, 83, 85, 76, 84, 40, 48, 120>>
         \o Hex8(e.code)
         \o <<41, 44, 32, 109, 101, 115, 115, 97, 103, 101, 58, 32, 34>>
         \o EscapeDebug(MessageOf(e.code)) \o <<34, 32, 125, 41>>
  ELSE IF e.kind = "InvalidSize"
    THEN <<73, 110, 118, 97, 108, 105, 100, 83, 105, 122, 101, 40>>
         \o Dec(e.size) \o <<41>>
  ELSE <<>>

\* "Failed to log message: "
FailedToLog ==
  <<70, 97, 105, 108, 101, 100, 32, 116, 111, 32, 108, 111, 103, 32, 109, 101,
    115, 115, 97, 103, 101, 58, 32>>

(***************************************************************************)
(* Inputs.                                                                 *)
(***************************************************************************)
\* the bytes caller-supplied text is drawn from: nul, '!', 'a'
TextBytes == {0, 33, 97}
Texts == SeqsUpTo(TextBytes, MaxText)

\* the root clients a command may be handed
Clients == {1, 2}
\* the four capabilities, in the order Dbg::new asks for them
Ifaces == <<"control", "symbols", "dataspaces", "registers">>
IfaceSet == {Ifaces[i] : i \in 1..Len(Ifaces)}

VARIABLES
  dbg,      \* the facade: <<>>, or <<its four handles>> (each names its client)
  modules,  \* the engine's module table, in index order
  op,       \* the last operation: its name, inputs, foreign calls and result
  cmd       \* the list_modules command: where it is, its index, its foreign
            \* calls so far, and the status it returned

vars == <<dbg, modules, op, cmd>>

(***************************************************************************)
(* The engine: what the target holds.                                      *)
(***************************************************************************)
Rep(n, b) == [i \in 1..n |-> b]

\* Target memory from address 0 on; -1 is an unmapped byte.
\*   0..1     unmapped
\*   2..4     "hi\0"
\*   5        "\0"
\*   6..14    the pattern 1..9
\*   15       unmapped
\*   16..271  255 x 'x', nul      (the longest string read_cstr's bound admits)
\*   272..528 256 x 'y', nul      (one byte too long)
\*   529..531 0xFF, 'a', nul      (not UTF-8)
\*   532..533 'z', 'z', then unmapped
Memory ==
  <<-1, -1, 104, 105, 0, 0, 1, 2, 3, 4, 5, 6, 7, 8, 9, -1>>
  \o Rep(CstrMaxBytes - 1, 120) \o <<0>>
  \o Rep(CstrMaxBytes, 121) \o <<0>>
  \o <<255, 97, 0, 122, 122>>

Mapped(a) == a + 1 \in 1..Len(Memory) /\ Memory[a + 1] # -1

MinOf(S) == CHOOSE k \in S : \A j \in S : k <= j

\* the number of mapped bytes from a on, at most n
Readable(a, n) ==
  LET holes == {k \in 0..(n - 1) : ~Mapped(a + k)}
  IN IF holes = {} THEN n ELSE MinOf(holes)

\* the offset of the first nul at or after a within n bytes; -1 when an
\* unmapped byte or the bound comes first
NulWithin(a, n) ==
  LET r == Readable(a, n)
      hits == {k \in 0..(r - 1) : Memory[a + k + 1] = 0}
  IN IF hits = {} THEN -1 ELSE MinOf(hits)

\* Symbol names by address; <<-1>> stands for "no symbol here".
\*   16  "a!a"                  32  "a"              48  "<Unloaded_a>"
\*   64  "  a!<Unloaded_"       80  0xFF "!"         96  no symbol
\*   112 NameBufLen - 2 bytes   128 NameBufLen - 1   144 NameBufLen
\*   160 NameBufLen + 6, "a!" first                  176 ""
\*   192 " a !a"
Unloaded == <<60, 85, 110, 108, 111, 97, 100, 101, 100, 95>>
Unknown == <<60, 117, 110, 107, 110, 111, 119, 110, 62>>

SymbolAt(a) ==
  IF a = 16 THEN <<97, 33, 97>>
  ELSE IF a = 32 THEN <<97>>
  ELSE IF a = 48 THEN Unloaded \o <<97, 62>>
  ELSE IF a = 64 THEN <<32, 32, 97, 33>> \o Unloaded
  ELSE IF a = 80 THEN <<255, 33>>
  ELSE IF a = 112 THEN Rep(NameBufLen - 2, 98)
  ELSE IF a = 128 THEN Rep(NameBufLen - 1, 98)
  ELSE IF a = 144 THEN Rep(NameBufLen, 98)
  ELSE IF a = 160 THEN <<97, 33>> \o Rep(NameBufLen + 4, 98)
  ELSE IF a = 176 THEN <<>>
  ELSE IF a = 192 THEN <<32, 97, 32, 33, 97>>
  ELSE <<-1>>

SymAddrs == {16 * k : k \in 0..12}

\* symbols by name (GetOffsetByName) and expressions (Evaluate): "a" and "aa"
OffsetByName(n) == IF n = <<97>> THEN 32 ELSE IF n = <<97, 97>> THEN 48 ELSE -1
EvalExpr(e) == IF e = <<97>> THEN 32 ELSE IF e = <<97, 97>> THEN 48 ELSE -1

\* registers by name: "a" is 0, "aa" is 1, "!" is 5; "!!" and "a!" are unknown
\* (the engine answers E_INVALIDARG and E_FAIL)
RegIndexHr(n) ==
  IF n \in {<<97>>, <<97, 97>>, <<33>>} THEN S_OK
  ELSE IF n = <<97, 33>> THEN E_FAIL ELSE E_INVALIDARG
RegIndex(n) == IF n = <<97>> THEN 0 ELSE IF n = <<97, 97>> THEN 1 ELSE 5
RegValid(i) == i \in {0, 1, 5}
RegValue(i) == 1000 + i

MsrValid(id) == id \in {0, 1}
MsrValue(id) == 7 * id + 3

\* the file system: "a" exists (canonical form "/a"), 0xFF exists under a name
\* that is no text, everything else (the empty path, "!", a path with a nul)
\* does not resolve
Paths == {<<>>, <<97>>, <<33>>, <<0>>, <<255>>}
PathExists(p) == p \in {<<97>>, <<255>>}
Canonical(p) == <<47>> \o p
IsText(p) == \A i \in 1..Len(p) : p[i] < 128

\* String::from_utf8_lossy on the model's bytes: ASCII is kept, 0xFF (never
\* part of a UTF-8 sequence) becomes U+FFFD, three bytes
LossyByte(b) == IF b < 128 THEN <<b>> ELSE <<239, 191, 189>>
from_utf8_lossy(s) == Flatten([i \in 1..Len(s) |-> LossyByte(s[i])], 1, Len(s))

\* Vec::resize(n, fill): truncates, or extends with fill
resize(buf, n, fill) == [i \in 1..n |-> IF i <= Len(buf) THEN buf[i] ELSE fill]

(***************************************************************************)
(* Dbg::new                                                                *)
(***************************************************************************)
\* client.cast::<I>(): QueryInterface on the root client
cast(client, iface, sup) ==
  Call("QueryInterface", <<client, iface>>, IF iface \in sup THEN S_OK ELSE E_NOINTERFACE)

\* a variant that asks for every capability whatever the earlier answers
castEvery(client, sup, i) == [k \in 1..(Len(Ifaces) - i + 1) |-> cast(client, Ifaces[i + k - 1], sup)]

\* the narrowing steps from step i on: stops at the first failure
RECURSIVE castFrom(_, _, _)
castFrom(client, sup, i) ==
  IF i > Len(Ifaces) THEN <<>>
  ELSE LET c == cast(client, Ifaces[i], sup)
       IN IF IsOk(c.hr) THEN <<c>> \o castFrom(client, sup, i + 1) ELSE <<c>>

new(client, sup) ==
  LET calls == castFrom(client, sup, 1)
      last == calls[Len(calls)]
  IN IF IsOk(last.hr)
       THEN [calls |-> calls,
             res |-> Ok([control |-> client, symbols |-> client,
                         dataspaces |-> client, registers |-> client])]
       ELSE [calls |-> calls, res |-> Err(WindowsError(last.hr))]

(***************************************************************************)
(* Dbg::exec, Dbg::output, Dbg::print, Dbg::println                        *)
(***************************************************************************)
\* a variant that marshals without looking for an interior nul
execUnchecked(command, hr) ==
  LET text == PCSTR(Append(command, 0))
  IN [calls |-> <<Call("Execute", <<DEBUG_OUTCTL_ALL_CLIENTS, text, DEBUG_EXECUTE_DEFAULT>>, hr)>>,
      res |-> IF IsOk(hr) THEN Ok(Unit) ELSE Err(WindowsError(hr))]

exec(command, hr) ==
  LET cstr == CStringNew(command)
  IN IF ~cstr.ok THEN [calls |-> <<>>, res |-> Err(cstr.err)]
     ELSE [calls |-> <<Call("Execute",
                           <<DEBUG_OUTCTL_ALL_CLIENTS, PCSTR(cstr.val), DEBUG_EXECUTE_DEFAULT>>,
                           hr)>>,
           res |-> IF IsOk(hr) THEN Ok(Unit) ELSE Err(WindowsError(hr))]

output(mask, str, hr) ==
  LET cstr == CStringNew(str)
  IN IF ~cstr.ok THEN [calls |-> <<>>, res |-> Err(cstr.err)]
     ELSE [calls |-> <<Call("Output", <<mask, PCSTR(cstr.val)>>, hr)>>,
           res |-> IF IsOk(hr) THEN Ok(Unit) ELSE Err(WindowsError(hr))]

\* a variant that tries the fallback again when the fallback fails
printTextRetry(text, h1, h2) ==
  LET p == output(DEBUG_OUTPUT_NORMAL, text, h1)
  IN IF ~p.res.ok
       THEN LET f == output(DEBUG_OUTPUT_ERROR, FailedToLog \o DebugFmt(p.res.err), h2)
            IN [calls |-> p.calls \o f.calls \o (IF f.res.ok THEN <<>> ELSE f.calls),
                res |-> Unit]
       ELSE [calls |-> p.calls, res |-> Unit]

\* the body print and println share, given the text of the primary output
printText(text, h1, h2) ==
  LET p == output(DEBUG_OUTPUT_NORMAL, text, h1)
  IN IF ~p.res.ok
       THEN LET f == output(DEBUG_OUTPUT_ERROR, FailedToLog \o DebugFmt(p.res.err), h2)
            IN [calls |-> p.calls \o f.calls, res |-> Unit]
       ELSE [calls |-> p.calls, res |-> Unit]

print(args, h1, h2) == printText(args, h1, h2)

println(args, h1, h2) == printText(args \o <<10>>, h1, h2)

(***************************************************************************)
(* The remaining facade methods.  A parameter hr (h1, h2) is the engine's  *)
(* own verdict on a call: a failure code makes the call fail whatever the  *)
(* target holds, S_OK lets the target decide.                              *)
(***************************************************************************)
EngineHr(hr, semantic) == IF ~IsOk(hr) THEN hr ELSE semantic

\* DebugValue for u64: the I64 member of the DEBUG_VALUE the engine filled
from_debug_value(value) == value.I64

eval(expr, hr) ==
  LET cstr == CStringNew(expr)
  IN IF ~cstr.ok THEN [calls |-> <<>>, res |-> Err(cstr.err)]
     ELSE LET v == EvalExpr(PCSTR(cstr.val))
              ehr == EngineHr(hr, IF v = -1 THEN E_FAIL ELSE S_OK)
              value == [I64 |-> IF IsOk(ehr) THEN v ELSE 0, Type |-> DEBUG_VALUE_INT64]
          IN [calls |-> <<Call("Evaluate", <<PCSTR(cstr.val), DEBUG_VALUE_INT64>>, ehr)>>,
              res |-> IF IsOk(ehr) THEN Ok(from_debug_value(value))
                      ELSE Err(WindowsError(ehr))]

get_symbol_address(name, hr) ==
  LET cstr == CStringNew(name)
  IN IF ~cstr.ok THEN [calls |-> <<>>, res |-> Err(cstr.err)]
     ELSE LET v == OffsetByName(PCSTR(cstr.val))
              ehr == EngineHr(hr, IF v = -1 THEN E_FAIL ELSE S_OK)
          IN [calls |-> <<Call("GetOffsetByName", <<PCSTR(cstr.val)>>, ehr)>>,
              res |-> IF IsOk(ehr) THEN Ok(v) ELSE Err(WindowsError(ehr))]

\* GetNameByOffset into a buffer: the name cut to fit with its terminator, the
\* size the whole name needs (terminator included), S_FALSE when it was cut;
\* zero: the engine succeeds and reports size 0, writing nothing
GetNameByOffset(addr, buffer, hr, zero) ==
  LET name == SymbolAt(addr)
      cap == Len(buffer)
      keep == Min(Len(name), cap - 1)
  IN IF ~IsOk(hr) THEN [hr |-> hr, buffer |-> buffer, size |-> 0, written |-> <<>>]
     ELSE IF name = <<-1>> THEN [hr |-> E_FAIL, buffer |-> buffer, size |-> 0, written |-> <<>>]
     ELSE IF zero THEN [hr |-> S_OK, buffer |-> buffer, size |-> 0, written |-> <<>>]
     ELSE [hr |-> IF Len(name) + 1 <= cap THEN S_OK ELSE S_FALSE,
           buffer |-> [i \in 1..cap |-> IF i <= keep THEN name[i]
                                        ELSE IF i = keep + 1 THEN 0 ELSE buffer[i]],
           size |-> Len(name) + 1,
           written |-> Append(SubSeq(name, 1, keep), 0)]

get_symbol_name(addr, hr, zero) ==
  LET e == GetNameByOffset(addr, Rep(NameBufLen, 0), hr, zero)
      call == [api |-> "GetNameByOffset", args |-> <<addr, NameBufLen>>, hr |-> e.hr,
               size |-> e.size, written |-> e.written]
  IN IF ~IsOk(e.hr) THEN [calls |-> <<call>>, res |-> Err(WindowsError(e.hr)), bytes |-> <<>>]
     ELSE IF e.size = 0 THEN [calls |-> <<call>>, res |-> Err(InvalidSize(e.size)), bytes |-> <<>>]
     ELSE LET buffer == resize(e.buffer, e.size - 1, 0)
          IN [calls |-> <<call>>, res |-> Ok(from_utf8_lossy(buffer)), bytes |-> buffer]

\* the engine's module table
ModuleByName(tbl, name) ==
  LET hits == {i \in 1..Len(tbl) : tbl[i].name = name}
  IN IF hits = {} THEN -1 ELSE tbl[MinOf(hits)].base

HasSynthetic(tbl, base) == \E i \in 1..Len(tbl) : tbl[i].base = base /\ tbl[i].synth

RECURSIVE Without(_, _)
Without(tbl, base) ==
  IF tbl = <<>> THEN <<>>
  ELSE IF tbl[1].base = base /\ tbl[1].synth THEN Tail(tbl)
  ELSE <<tbl[1]>> \o Without(Tail(tbl), base)

\* RemoveSyntheticModule(base) on table tbl
RemoveSyntheticModule(tbl, base, hr) ==
  LET ehr == EngineHr(hr, IF HasSynthetic(tbl, base) THEN S_OK ELSE E_INVALIDARG)
  IN [call |-> Call("RemoveSyntheticModule", <<base>>, ehr),
      modules |-> IF IsOk(ehr) THEN Without(tbl, base) ELSE tbl]

Address(base) == [tag |-> "Address", base |-> base]
Name(name) == [tag |-> "Name", name |-> name]

\* a variant whose name branch removes the base it started with, 0, instead
\* of the one the lookup returned
removeStaleBase(tbl, module, h1, h2) ==
  IF module.tag = "Address"
    THEN LET r == RemoveSyntheticModule(tbl, module.base, h2)
         IN [calls |-> <<r.call>>, modules |-> r.modules,
             res |-> IF IsOk(r.call.hr) THEN Ok(Unit) ELSE Err(WindowsError(r.call.hr))]
    ELSE LET cstr == CStringNew(module.name)
         IN IF ~cstr.ok THEN [calls |-> <<>>, modules |-> tbl, res |-> Err(cstr.err)]
            ELSE LET b == ModuleByName(tbl, PCSTR(cstr.val))
                     ehr == EngineHr(h1, IF b = -1 THEN E_INVALIDARG ELSE S_OK)
                     look == Call("GetModuleByModuleName", <<PCSTR(cstr.val), 0>>, ehr)
                 IN IF ~IsOk(ehr)
                      THEN [calls |-> <<look>>, modules |-> tbl, res |-> Err(WindowsError(ehr))]
                      ELSE LET r == RemoveSyntheticModule(tbl, 0, h2)
                           IN [calls |-> <<look, r.call>>, modules |-> r.modules,
                               res |-> IF IsOk(r.call.hr) THEN Ok(Unit)
                                       ELSE Err(WindowsError(r.call.hr))]

remove_synthetic_module(tbl, module, h1, h2) ==
  IF module.tag = "Address"
    THEN LET r == RemoveSyntheticModule(tbl, module.base, h2)
         IN [calls |-> <<r.call>>, modules |-> r.modules,
             res |-> IF IsOk(r.call.hr) THEN Ok(Unit) ELSE Err(WindowsError(r.call.hr))]
    ELSE LET cstr == CStringNew(module.name)
         IN IF ~cstr.ok THEN [calls |-> <<>>, modules |-> tbl, res |-> Err(cstr.err)]
            ELSE LET b == ModuleByName(tbl, PCSTR(cstr.val))
                     ehr == EngineHr(h1, IF b = -1 THEN E_INVALIDARG ELSE S_OK)
                     look == Call("GetModuleByModuleName", <<PCSTR(cstr.val), 0>>, ehr)
                     base == IF IsOk(ehr) THEN b ELSE 0
                 IN IF ~IsOk(ehr)
                      THEN [calls |-> <<look>>, modules |-> tbl, res |-> Err(WindowsError(ehr))]
                      ELSE LET r == RemoveSyntheticModule(tbl, base, h2)
                           IN [calls |-> <<look, r.call>>, modules |-> r.modules,
                               res |-> IF IsOk(r.call.hr) THEN Ok(Unit)
                                       ELSE Err(WindowsError(r.call.hr))]

\* ReadVirtual: the mapped bytes from vaddr on, as many as the buffer takes;
\* a failure when the first byte asked for is unmapped
ReadVirtual(vaddr, buffer, hr) ==
  LET n == Readable(vaddr, Len(buffer))
      ehr == EngineHr(hr, IF Len(buffer) > 0 /\ n = 0 THEN E_FAIL ELSE S_OK)
  IN IF ~IsOk(ehr) THEN [hr |-> ehr, buffer |-> buffer, bytes_read |-> 0]
     ELSE [hr |-> ehr,
           buffer |-> [i \in 1..Len(buffer) |-> IF i <= n THEN Memory[vaddr + i] ELSE buffer[i]],
           bytes_read |-> n]

\* a variant that takes a short count for a failure
readVaddrWhole(vaddr, buffer, hr) ==
  LET e == ReadVirtual(vaddr, buffer, hr)
      call == Call("ReadVirtual", <<vaddr, Len(buffer)>>, e.hr)
  IN IF ~IsOk(e.hr) THEN [calls |-> <<call>>, res |-> Err(WindowsError(e.hr)), buffer |-> e.buffer]
     ELSE IF e.bytes_read < Len(buffer)
       THEN [calls |-> <<call>>, res |-> Err(InvalidSize(e.bytes_read)), buffer |-> e.buffer]
     ELSE [calls |-> <<call>>, res |-> Ok(e.bytes_read), buffer |-> e.buffer]

read_vaddr(vaddr, buffer, hr) ==
  LET e == ReadVirtual(vaddr, buffer, hr)
      call == Call("ReadVirtual", <<vaddr, Len(buffer)>>, e.hr)
  IN IF ~IsOk(e.hr) THEN [calls |-> <<call>>, res |-> Err(WindowsError(e.hr)), buffer |-> e.buffer]
     ELSE [calls |-> <<call>>, res |-> Ok(e.bytes_read), buffer |-> e.buffer]

\* AddSyntheticModule: refused when the table is full or the base is taken
AddSyntheticModule(tbl, base, name, hr) ==
  LET free == Len(tbl) < MaxModules /\ \A i \in 1..Len(tbl) : tbl[i].base # base
      ehr == EngineHr(hr, IF free THEN S_OK ELSE E_INVALIDARG)
  IN [hr |-> ehr,
      modules |-> IF IsOk(ehr) THEN Append(tbl, [base |-> base, name |-> name, synth |-> TRUE])
                  ELSE tbl]

\* a variant that registers the module before it looks at the path
addBeforePath(tbl, expr, size, name, path, h1, h2) ==
  LET base == eval(expr, h1)
      module_name == CStringNew(name)
      image_path == IF ~PathExists(path) THEN Err(IoError)
                    ELSE IF ~IsText(Canonical(path))
                      THEN Err(DbgGeneralError("Invalid Image Path"))
                    ELSE CStringNew(Canonical(path))
  IN IF ~base.res.ok THEN [calls |-> base.calls, modules |-> tbl, res |-> base.res]
     ELSE IF ~module_name.ok
       THEN [calls |-> base.calls, modules |-> tbl, res |-> Err(module_name.err)]
     ELSE LET e == AddSyntheticModule(tbl, base.res.val, PCSTR(module_name.val), h2)
              call == Call("AddSyntheticModule",
                           <<base.res.val, size,
                             IF image_path.ok THEN PCSTR(image_path.val) ELSE <<>>,
                             PCSTR(module_name.val), DEBUG_ADDSYNTHMOD_DEFAULT>>, e.hr)
          IN [calls |-> Append(base.calls, call), modules |-> e.modules,
              res |-> IF ~IsOk(e.hr) THEN Err(WindowsError(e.hr))
                      ELSE IF ~image_path.ok THEN Err(image_path.err)
                      ELSE Ok(Unit)]

add_synthetic_module(tbl, expr, size, name, path, h1, h2) ==
  LET base == eval(expr, h1)
      module_name == CStringNew(name)
      image_path == IF ~PathExists(path) THEN Err(IoError)
                    ELSE IF ~IsText(Canonical(path))
                      THEN Err(DbgGeneralError("Invalid Image Path"))
                    ELSE CStringNew(Canonical(path))
  IN IF ~base.res.ok THEN [calls |-> base.calls, modules |-> tbl, res |-> base.res]
     ELSE IF ~module_name.ok
       THEN [calls |-> base.calls, modules |-> tbl, res |-> Err(module_name.err)]
     ELSE IF ~image_path.ok
       THEN [calls |-> base.calls, modules |-> tbl, res |-> Err(image_path.err)]
     ELSE LET e == AddSyntheticModule(tbl, base.res.val, PCSTR(module_name.val), h2)
              call == Call("AddSyntheticModule",
                           <<base.res.val, size, PCSTR(image_path.val),
                             PCSTR(module_name.val), DEBUG_ADDSYNTHMOD_DEFAULT>>, e.hr)
          IN [calls |-> Append(base.calls, call), modules |-> e.modules,
              res |-> IF IsOk(e.hr) THEN Ok(Unit) ELSE Err(WindowsError(e.hr))]

\* T is known by size_of::<T>(); a value of T is its bytes
read_unaligned(buffer) == buffer

\* a variant that loads from the address rounded down to T's size
readTypeAligned(size, vaddr, hr) ==
  IF size = 0 THEN [calls |-> <<>>, res |-> Err(InvalidSize(size))]
  ELSE LET r == read_vaddr(vaddr - (vaddr % size), Rep(size, 0), hr)
       IN IF ~r.res.ok THEN [calls |-> r.calls, res |-> r.res]
          ELSE [calls |-> r.calls, res |-> Ok(read_unaligned(r.buffer))]

read_type_vaddr(size, vaddr, hr) ==
  IF size = 0 THEN [calls |-> <<>>, res |-> Err(InvalidSize(size))]
  ELSE LET r == read_vaddr(vaddr, Rep(size, 0), hr)
       IN IF ~r.res.ok THEN [calls |-> r.calls, res |-> r.res]
          ELSE [calls |-> r.calls, res |-> Ok(read_unaligned(r.buffer))]

msr(id, hr) ==
  LET ehr == EngineHr(hr, IF MsrValid(id) THEN S_OK ELSE E_INVALIDARG)
  IN [calls |-> <<Call("ReadMsr", <<id>>, ehr)>>,
      res |-> IF IsOk(ehr) THEN Ok(MsrValue(id)) ELSE Err(WindowsError(ehr))]

\* ReadMultiByteStringVirtual: the string at addr with its terminator, when
\* the terminator lies within max_bytes mapped bytes
ReadMultiByteStringVirtual(addr, max_bytes, buffer, hr, zero) ==
  LET k == NulWithin(addr, max_bytes)
  IN IF ~IsOk(hr) THEN [hr |-> hr, buffer |-> buffer, size |-> 0, written |-> <<>>]
     ELSE IF k = -1 THEN [hr |-> E_INVALIDARG, buffer |-> buffer, size |-> 0, written |-> <<>>]
     ELSE IF zero THEN [hr |-> S_OK, buffer |-> buffer, size |-> 0, written |-> <<>>]
     ELSE [hr |-> S_OK,
           buffer |-> [i \in 1..Len(buffer) |-> IF i <= k + 1 THEN Memory[addr + i] ELSE buffer[i]],
           size |-> k + 1,
           written |-> [i \in 1..(k + 1) |-> Memory[addr + i]]]

read_cstr(addr, hr, zero) ==
  LET max_bytes == CstrMaxBytes
      e == ReadMultiByteStringVirtual(addr, max_bytes, Rep(max_bytes, 0), hr, zero)
      call == [api |-> "ReadMultiByteStringVirtual", args |-> <<addr, max_bytes>>,
               hr |-> e.hr, size |-> e.size, written |-> e.written]
  IN IF ~IsOk(e.hr) THEN [calls |-> <<call>>, res |-> Err(WindowsError(e.hr)), bytes |-> <<>>]
     ELSE IF e.size = 0 THEN [calls |-> <<call>>, res |-> Err(InvalidSize(e.size)), bytes |-> <<>>]
     ELSE LET buffer == resize(e.buffer, e.size - 1, 0)
          IN [calls |-> <<call>>, res |-> Ok(from_utf8_lossy(buffer)), bytes |-> buffer]

\* one name of reg_indices: the closure given to map
regIndex(n) ==
  LET name == CStringNew(n)
  IN IF ~name.ok THEN [calls |-> <<>>, res |-> Err(name.err)]
     ELSE LET hr == RegIndexHr(PCSTR(name.val))
          IN [calls |-> <<Call("GetIndexByName", <<PCSTR(name.val)>>, hr)>>,
              res |-> IF IsOk(hr) THEN Ok(RegIndex(PCSTR(name.val)))
                      ELSE Err(WindowsError(hr))]

\* a variant that resolves every name and only then looks for an Err
collectAll(names, i, acc, calls) ==
  LET rs == [k \in 1..(Len(names) - i + 1) |-> regIndex(names[i + k - 1])]
      all == calls \o Flatten([k \in 1..Len(rs) |-> rs[k].calls], 1, Len(rs))
      bad == {k \in 1..Len(rs) : ~rs[k].res.ok}
  IN IF bad = {} THEN [calls |-> all, res |-> Ok(acc \o [k \in 1..Len(rs) |-> rs[k].res.val])]
     ELSE [calls |-> all, res |-> rs[MinOf(bad)].res]

\* collect::<Result<Vec<_>, _>>() over names[i..]: pulls items one at a time
\* and stops at the first Err
RECURSIVE collect(_, _, _, _)
collect(names, i, acc, calls) ==
  IF i > Len(names) THEN [calls |-> calls, res |-> Ok(acc)]
  ELSE LET r == regIndex(names[i])
       IN IF ~r.res.ok THEN [calls |-> calls \o r.calls, res |-> r.res]
          ELSE collect(names, i + 1, Append(acc, r.res.val), calls \o r.calls)

reg_indices(names) == collect(names, 1, <<>>, <<>>)

\* A Vec: len initialised elements at the front of an allocation of capacity
\* slots; mem is what the allocation holds.  Its elements are mem[1..len].
VecWithCapacity(n) == [len |-> 0, mem |-> Rep(n, "uninit")]
VecItems(v) == SubSeq(v.mem, 1, v.len)

\* GetValues(count, indices, start, out): fills out[0..count] when every index
\* names a register
GetValues(indices, mem, hr) ==
  LET ehr == EngineHr(hr, IF \A i \in 1..Len(indices) : RegValid(indices[i])
                          THEN S_OK ELSE E_INVALIDARG)
  IN [hr |-> ehr,
      mem |-> IF IsOk(ehr)
                THEN [i \in 1..Len(mem) |-> IF i <= Len(indices) THEN RegValue(indices[i])
                                            ELSE mem[i]]
                ELSE mem]

reg_values(indices, hr) ==
  LET values == VecWithCapacity(Len(indices))
      e == GetValues(indices, values.mem, hr)
      call == Call("GetValues", <<Len(indices), indices, 0>>, e.hr)
  IN IF ~IsOk(e.hr) THEN [calls |-> <<call>>, res |-> Err(WindowsError(e.hr))]
     ELSE [calls |-> <<call>>, res |-> Ok([len |-> values.len, mem |-> e.mem])]

(***************************************************************************)
(* Actions.  A caller that holds a facade calls one method at a time; op   *)
(* is the call that has just returned, and Return is the caller taking its *)
(* result (the facade keeps nothing of a call).                            *)
(***************************************************************************)
Idle == [name |-> "idle"]

\* inputs
ModNames == {<<97>>, <<33>>, <<97, 0>>}
RegNames == {<<97>>, <<97, 97>>, <<33>>, <<97, 0>>, <<33, 33>>, <<97, 33>>}
RegLists == SeqsUpTo(RegNames, MaxNames)
IndexLists == SeqsUpTo({0, 1, 2, 5}, MaxNames)
TypeSizes == {0, 1, 2, 4, 8}
CstrAddrs == {0, 2, 3, 4, 5, 15, 16, 17, 271, 272, 273, 529, 532}
ModuleIds == {Address(b) : b \in {16, 32, 48}} \cup {Name(n) : n \in Texts}

Init ==
  /\ dbg = <<>>
  /\ modules = <<[base |-> 16, name |-> <<97>>, synth |-> FALSE]>>
  /\ op = Idle
  /\ cmd = [pc |-> "off", index |-> 0, log |-> <<>>, status |-> <<>>]

Ready == Len(dbg) = 1 /\ op = Idle

CallNew ==
  /\ op = Idle
  /\ \E c \in Clients, sup \in SUBSET IfaceSet :
       LET r == new(c, sup)
       IN /\ dbg' = IF r.res.ok THEN <<r.res.val>> ELSE <<>>
          /\ op' = [name |-> "new", client |-> c, calls |-> r.calls, res |-> r.res]
  /\ UNCHANGED <<modules, cmd>>

Return ==
  /\ op # Idle
  /\ op' = Idle
  /\ UNCHANGED <<dbg, modules, cmd>>

CallExec ==
  /\ Ready
  /\ \E command \in Texts, hr \in HResults :
       LET r == exec(command, hr)
       IN op' = [name |-> "exec", arg |-> command, hr |-> hr,
                 calls |-> r.calls, res |-> r.res]
  /\ UNCHANGED <<dbg, modules, cmd>>

CallPrint ==
  /\ Ready
  /\ \E args \in Texts, h1 \in HResults, h2 \in HResults :
       LET r == print(args, h1, h2)
       IN op' = [name |-> "print", arg |-> args, text |-> args, h1 |-> h1, h2 |-> h2,
                 calls |-> r.calls, res |-> r.res]
  /\ UNCHANGED <<dbg, modules, cmd>>

CallPrintln ==
  /\ Ready
  /\ \E args \in Texts, h1 \in HResults, h2 \in HResults :
       LET r == println(args, h1, h2)
       IN op' = [name |-> "println", arg |-> args, text |-> args \o <<10>>,
                 h1 |-> h1, h2 |-> h2, calls |-> r.calls, res |-> r.res]
  /\ UNCHANGED <<dbg, modules, cmd>>

CallEval ==
  /\ Ready
  /\ \E expr \in Texts, hr \in HResults :
       LET r == eval(expr, hr)
       IN op' = [name |-> "eval", arg |-> expr, calls |-> r.calls, res |-> r.res]
  /\ UNCHANGED <<dbg, modules, cmd>>

CallGetSymbolAddress ==
  /\ Ready
  /\ \E name \in Texts, hr \in HResults :
       LET r == get_symbol_address(name, hr)
       IN op' = [name |-> "get_symbol_address", arg |-> name,
                 calls |-> r.calls, res |-> r.res]
  /\ UNCHANGED <<dbg, modules, cmd>>

CallGetSymbolName ==
  /\ Ready
  /\ \E addr \in SymAddrs, hr \in HResults, zero \in BOOLEAN :
       LET r == get_symbol_name(addr, hr, zero)
       IN op' = [name |-> "get_symbol_name", arg |-> addr, cap |-> NameBufLen,
                 calls |-> r.calls, res |-> r.res, bytes |-> r.bytes]
  /\ UNCHANGED <<dbg, modules, cmd>>

CallRemoveSyntheticModule ==
  /\ Ready
  /\ \E module \in ModuleIds, h1 \in HResults, h2 \in HResults :
       LET r == remove_synthetic_module(modules, module, h1, h2)
       IN /\ op' = [name |-> "remove_synthetic_module", arg |-> module, pre |-> modules,
                    h1 |-> h1, h2 |-> h2, calls |-> r.calls, res |-> r.res]
          /\ modules' = r.modules
  /\ UNCHANGED <<dbg, cmd>>

CallReadVaddr ==
  /\ Ready
  /\ \E vaddr \in 0..MaxAddr, len \in 0..MaxRead, hr \in HResults :
       LET r == read_vaddr(vaddr, Rep(len, 0), hr)
       IN op' = [name |-> "read_vaddr", arg |-> vaddr, len |-> len,
                 calls |-> r.calls, res |-> r.res, buffer |-> r.buffer]
  /\ UNCHANGED <<dbg, modules, cmd>>

CallAddSyntheticModule ==
  /\ Ready
  /\ \E expr \in Texts, name \in ModNames, path \in Paths,
        h1 \in HResults, h2 \in HResults :
       LET r == add_synthetic_module(modules, expr, 4096, name, path, h1, h2)
       IN /\ op' = [name |-> "add_synthetic_module", expr |-> expr, modname |-> name,
                    path |-> path, pre |-> modules, h1 |-> h1,
                    calls |-> r.calls, res |-> r.res]
          /\ modules' = r.modules
  /\ UNCHANGED <<dbg, cmd>>

CallReadTypeVaddr ==
  /\ Ready
  /\ \E size \in TypeSizes, vaddr \in 0..MaxAddr, hr \in HResults :
       LET r == read_type_vaddr(size, vaddr, hr)
       IN op' = [name |-> "read_type_vaddr", size |-> size, arg |-> vaddr,
                 calls |-> r.calls, res |-> r.res]
  /\ UNCHANGED <<dbg, modules, cmd>>

CallMsr ==
  /\ Ready
  /\ \E id \in 0..2, hr \in HResults :
       LET r == msr(id, hr)
       IN op' = [name |-> "msr", arg |-> id, calls |-> r.calls, res |-> r.res]
  /\ UNCHANGED <<dbg, modules, cmd>>

CallReadCstr ==
  /\ Ready
  /\ \E addr \in CstrAddrs, hr \in HResults, zero \in BOOLEAN :
       LET r == read_cstr(addr, hr, zero)
       IN op' = [name |-> "read_cstr", arg |-> addr, cap |-> CstrMaxBytes,
                 calls |-> r.calls, res |-> r.res, bytes |-> r.bytes]
  /\ UNCHANGED <<dbg, modules, cmd>>

CallRegIndices ==
  /\ Ready
  /\ \E names \in RegLists :
       LET r == reg_indices(names)
       IN op' = [name |-> "reg_indices", arg |-> names, calls |-> r.calls, res |-> r.res]
  /\ UNCHANGED <<dbg, modules, cmd>>

CallRegValues ==
  /\ Ready
  /\ \E indices \in IndexLists, hr \in HResults :
       LET r == reg_values(indices, hr)
       IN op' = [name |-> "reg_values", arg |-> indices, calls |-> r.calls, res |-> r.res]
  /\ UNCHANGED <<dbg, modules, cmd>>

Next ==
  \/ CallNew
  \/ Return
  \/ CallExec
  \/ CallPrint
  \/ CallPrintln
  \/ CallEval
  \/ CallGetSymbolAddress
  \/ CallGetSymbolName
  \/ CallRemoveSyntheticModule
  \/ CallReadVaddr
  \/ CallAddSyntheticModule
  \/ CallReadTypeVaddr
  \/ CallMsr
  \/ CallReadCstr
  \/ CallRegIndices
  \/ CallRegValues

Spec == Init /\ [][Next]_vars

(***************************************************************************)
(* The list_modules command (src/examples/src/lib.rs).                     *)
(***************************************************************************)
\* most modules the target of a listing holds
MaxListed == 2

\* str::contains
Contains(s, pat) ==
  \E k \in 0..(Len(s) - Len(pat)) : \A i \in 1..Len(pat) : s[k + i] = pat[i]

\* split('!').next(): the text before the first '!'
SplitFirst(s) ==
  LET hits == {i \in 1..Len(s) : s[i] = 33}
  IN IF hits = {} THEN s ELSE SubSeq(s, 1, MinOf(hits) - 1)

\* str::trim, on the model's bytes
IsSpace(b) == b \in {9, 10, 11, 12, 13, 32}
Trim(s) ==
  LET solid == {i \in 1..Len(s) : ~IsSpace(s[i])}
  IN IF solid = {} THEN <<>>
     ELSE SubSeq(s, MinOf(solid), CHOOSE k \in solid : \A j \in solid : j <= k)

\* "[dbg] Module {index}: {clean_name} (Base: {base:#X})"
ModuleLinePrefix == <<91, 100, 98, 103, 93, 32, 77, 111, 100, 117, 108, 101, 32>>
ModuleLine(index, clean_name, base) ==
  ModuleLinePrefix \o Dec(index) \o <<58, 32>> \o clean_name
  \o <<32, 40, 66, 97, 115, 101, 58, 32, 48, 120>> \o HexU(base) \o <<41>>

\* "[dbg] Finished listing modules."
FinishedLine ==
  <<91, 100, 98, 103, 93, 32, 70, 105, 110, 105, 115, 104, 101, 100, 32, 108, 105,
    115, 116, 105, 110, 103, 32, 109, 111, 100, 117, 108, 101, 115, 46>>

\* "[dbg] Error: "
ErrorLinePrefix == <<91, 100, 98, 103, 93, 32, 69, 114, 114, 111, 114, 58, 32>>

\* GetModuleByIndex on table tbl
GetModuleByIndex(tbl, index, hr) ==
  LET ehr == EngineHr(hr, IF index < Len(tbl) THEN S_OK ELSE E_INVALIDARG)
  IN [call |-> Call("GetModuleByIndex", <<index>>, ehr),
      base |-> IF IsOk(ehr) THEN tbl[index + 1].base ELSE 0]

\* the body of wrap's loop once the module at index has been found at base
wrapBody(index, base, nameHr, h1, h2) ==
  LET n == get_symbol_name(base, nameHr, FALSE)
      module_name == IF n.res.ok THEN n.res.val ELSE Unknown
  IN IF Contains(module_name, Unloaded)
       THEN [calls |-> n.calls, index |-> index + 1]
       ELSE LET clean_name == Trim(SplitFirst(module_name))
                p == println(ModuleLine(index, clean_name, base), h1, h2)
            IN [calls |-> n.calls \o p.calls, index |-> index + 1]

\* wrap once its lookup has failed: the closing line, and Ok(())
wrapBreak(h1, h2) ==
  LET p == println(FinishedLine, h1, h2)
  IN [calls |-> p.calls, res |-> Ok(Unit)]

\* list_modules once wrap has returned res
listModulesStatus(res, h1, h2) ==
  IF res.ok THEN [calls |-> <<>>, status |-> S_OK]
  ELSE [calls |-> println(ErrorLinePrefix, h1, h2).calls, status |-> E_ABORT]

\* the targets a listing runs against: up to MaxListed modules at distinct
\* bases: 48 "<Unloaded_a>", 64 "  a!<Unloaded_", 144 (a name of NameBufLen
\* bytes), 192 " a !a"
ListBases == {48, 64, 144, 192}
\* the root client the engine hands the command
ListClients == {1}
RECURSIVE TablesUpTo(_)
TablesUpTo(n) ==
  IF n = 0 THEN {<<>>}
  ELSE LET T == TablesUpTo(n - 1)
       IN T \cup {Append(t, [base |-> b, name |-> <<97>>, synth |-> FALSE]) :
                    t \in {u \in T : Len(u) = n - 1},
                    b \in ListBases}
ListTables ==
  {t \in TablesUpTo(MaxListed) :
     \A i \in 1..Len(t) : \A j \in 1..Len(t) : i # j => t[i].base # t[j].base}

Faults == {S_OK, E_FAIL}

InitList ==
  /\ dbg = <<>>
  /\ modules \in ListTables
  /\ op = Idle
  /\ cmd = [pc |-> "entry", index |-> 0, log |-> <<>>, status |-> <<>>]

\* list_modules up to the first lookup: Dbg::new, and E_ABORT when it fails
ListModulesEntry ==
  /\ cmd.pc = "entry"
  /\ \E c \in ListClients, sup \in SUBSET IfaceSet :
       LET r == new(c, sup)
       IN IF r.res.ok
            THEN /\ dbg' = <<r.res.val>>
                 /\ cmd' = [cmd EXCEPT !.pc = "loop", !.log = r.calls]
            ELSE /\ dbg' = <<>>
                 /\ cmd' = [cmd EXCEPT !.pc = "done", !.log = r.calls, !.status = <<E_ABORT>>]
  /\ UNCHANGED <<modules, op>>

\* one turn of wrap's loop whose lookup succeeds
WrapIteration ==
  /\ cmd.pc = "loop"
  /\ \E hr \in Faults, nameHr \in Faults, h1 \in Faults, h2 \in Faults :
       LET e == GetModuleByIndex(modules, cmd.index, hr)
           b == wrapBody(cmd.index, e.base, nameHr, h1, h2)
       IN /\ IsOk(e.call.hr)
          /\ cmd' = [cmd EXCEPT !.index = b.index, !.log = cmd.log \o <<e.call>> \o b.calls]
  /\ UNCHANGED <<dbg, modules, op>>

\* the turn whose lookup fails: break, the closing line, and the status
WrapBreak ==
  /\ cmd.pc = "loop"
  /\ \E hr \in Faults, h1 \in Faults, h2 \in Faults :
       LET e == GetModuleByIndex(modules, cmd.index, hr)
           w == wrapBreak(h1, h2)
           l == listModulesStatus(w.res, h1, h2)
       IN /\ ~IsOk(e.call.hr)
          /\ cmd' = [cmd EXCEPT !.pc = "done",
                                !.log = cmd.log \o <<e.call>> \o w.calls \o l.calls,
                                !.status = <<l.status>>]
  /\ UNCHANGED <<dbg, modules, op>>

NextList == ListModulesEntry \/ WrapIteration \/ WrapBreak

SpecList == InitList /\ [][NextList]_vars

(***************************************************************************)
(* The claims.                                                             *)
(***************************************************************************)
AllOk(calls) == \A i \in 1..Len(calls) : IsOk(calls[i].hr)

\* C1: Dbg::new asks the root client for control, symbols, dataspaces and
\* registers in that order; at the first step that fails it returns
\* WindowsError with that step's code, asks for nothing further and produces
\* no Dbg; a Dbg exists only when all four steps succeeded, each handle being
\* the one of the same client.
NewFailsFastAndAtomically ==
  /\ op.name = "new" =>
       /\ Len(op.calls) \in 1..Len(Ifaces)
       /\ \A i \in 1..Len(op.calls) :
            /\ op.calls[i].api = "QueryInterface"
            /\ op.calls[i].args = <<op.client, Ifaces[i]>>
            /\ i < Len(op.calls) => IsOk(op.calls[i].hr)
       /\ LET last == op.calls[Len(op.calls)]
          IN IF IsOk(last.hr)
               THEN /\ Len(op.calls) = Len(Ifaces)
                    /\ op.res.ok
                    /\ dbg = <<op.res.val>>
               ELSE /\ op.res = Err(WindowsError(last.hr))
                    /\ dbg = <<>>
  /\ Len(dbg) = 1 =>
       \E c \in Clients :
         dbg[1] = [control |-> c, symbols |-> c, dataspaces |-> c, registers |-> c]

\* C1 witness: a construction that fails at its third step
NewFailedAtThirdStep ==
  /\ op.name = "new"
  /\ Len(op.calls) = 3
  /\ ~IsOk(op.calls[3].hr)
  /\ ~op.res.ok

\* C2: print and println return nothing but (); when the primary output
\* (normal mask) succeeds it is the only engine call; when it fails, by an
\* engine error or by a nul in the text, exactly one output call with the
\* error mask follows, carrying "Failed to log message: " and the Debug text
\* of the primary failure, and nothing follows that call whatever its outcome;
\* so at most two engine calls are issued.
PrintNeverFailsOneFallback ==
  op.name \in {"print", "println"} =>
    LET text == IF op.name = "println" THEN op.arg \o <<10>> ELSE op.arg
        primary == Call("Output", <<DEBUG_OUTPUT_NORMAL, text>>, op.h1)
        failure == IF HasNul(text) THEN InvalidString(NulPos(text), text)
                   ELSE WindowsError(op.h1)
        fallback == Call("Output",
                         <<DEBUG_OUTPUT_ERROR, FailedToLog \o DebugFmt(failure)>>, op.h2)
    IN /\ op.res = Unit
       /\ Len(op.calls) <= 2
       /\ ~HasNul(FailedToLog \o DebugFmt(failure))
       /\ IF HasNul(text) THEN op.calls = <<fallback>>
          ELSE IF ~IsOk(op.h1) THEN op.calls = <<primary, fallback>>
          ELSE op.calls = <<primary>>

\* C2 witness: the primary output and the fallback both failed
PrintFallbackFailedToo ==
  /\ op.name = "println"
  /\ Len(op.calls) = 2
  /\ ~IsOk(op.calls[1].hr)
  /\ op.calls[2].args[1] = DEBUG_OUTPUT_ERROR
  /\ ~IsOk(op.calls[2].hr)

\* C3: exec on a command with an interior nul fails with InvalidString and
\* issues no foreign call; on any other command it issues exactly one Execute
\* call (all clients, the command, default flags) and returns its outcome.
ExecMarshalsOrRefuses ==
  op.name = "exec" =>
    IF HasNul(op.arg)
      THEN /\ op.calls = <<>>
           /\ ~op.res.ok
           /\ op.res.err.kind = "InvalidString"
      ELSE /\ op.calls = <<Call("Execute",
                                <<DEBUG_OUTCTL_ALL_CLIENTS, op.arg, DEBUG_EXECUTE_DEFAULT>>,
                                op.hr)>>
           /\ op.res = IF IsOk(op.hr) THEN Ok(Unit) ELSE Err(WindowsError(op.hr))

\* C3 witness: a command with a nul, refused without a foreign call
ExecRefusedNul ==
  /\ op.name = "exec"
  /\ HasNul(op.arg)
  /\ op.calls = <<>>
  /\ ~op.res.ok

\* C4: for get_symbol_name (1024-byte buffer) and read_cstr (256 bytes), when
\* the engine call succeeds: a reported size of 0 gives InvalidSize(0); a
\* reported size >= 1 gives the text of the buffer cut to size - 1 bytes, which
\* is a prefix of what the engine wrote without its terminator and is at most
\* one byte shorter than the working buffer.
TextReadIsTruncatedPrefix ==
  (op.name \in {"get_symbol_name", "read_cstr"} /\ IsOk(op.calls[1].hr)) =>
    LET c == op.calls[1]
    IN IF c.size = 0 THEN op.res = Err(InvalidSize(0))
       ELSE /\ op.res.ok
            /\ op.res.val = from_utf8_lossy(op.bytes)
            /\ Len(op.bytes) = c.size - 1
            /\ Len(op.bytes) <= op.cap - 1
            /\ Len(op.bytes) <= Len(c.written) - 1
            /\ \A i \in 1..Len(op.bytes) : op.bytes[i] = c.written[i]
            /\ ~HasNul(op.bytes)

\* C5: reg_values issues one GetValues call for exactly the given indices in
\* the given order, and when it succeeds the returned list is as long as the
\* index list, its i-th element the engine's value of the i-th index.
RegValuesSameLengthAndOrder ==
  op.name = "reg_values" =>
    /\ Len(op.calls) = 1
    /\ op.calls[1].api = "GetValues"
    /\ op.calls[1].args = <<Len(op.arg), op.arg, 0>>
    /\ op.res.ok =>
         /\ Len(VecItems(op.res.val)) = Len(op.arg)
         /\ \A i \in 1..Len(op.arg) : VecItems(op.res.val)[i] = RegValue(op.arg[i])

\* C6: reg_indices looks the names up left to right, one GetIndexByName call
\* per name; when every name resolves the result is the list of the engine's
\* indices, in order; otherwise it is the error of the first name that has a
\* nul or does not resolve, no later name is looked up, and no list is
\* returned.
Unresolved(n) == HasNul(n) \/ ~IsOk(RegIndexHr(n))

RegIndicesFailFast ==
  op.name = "reg_indices" =>
    LET names == op.arg
        bad == {i \in 1..Len(names) : Unresolved(names[i])}
        Lookup(i) == Call("GetIndexByName", <<names[i]>>, RegIndexHr(names[i]))
    IN IF bad = {}
         THEN /\ op.res = Ok([i \in 1..Len(names) |-> RegIndex(names[i])])
              /\ op.calls = [i \in 1..Len(names) |-> Lookup(i)]
         ELSE LET k == MinOf(bad)
              IN /\ op.res = Err(IF HasNul(names[k])
                                   THEN InvalidString(NulPos(names[k]), names[k])
                                   ELSE WindowsError(RegIndexHr(names[k])))
                 /\ op.calls = [i \in 1..(IF HasNul(names[k]) THEN k - 1 ELSE k) |-> Lookup(i)]

\* C6 witness: three names, the second unknown to the engine
RegIndicesStoppedAtSecond ==
  /\ op.name = "reg_indices"
  /\ Len(op.arg) = 3
  /\ ~Unresolved(op.arg[1])
  /\ Unresolved(op.arg[2])
  /\ ~HasNul(op.arg[2])
  /\ Len(op.calls) = 2
  /\ ~op.res.ok

\* C7: read_type_vaddr of a T of size 0 fails with InvalidSize(0) without a
\* foreign call; otherwise it issues one ReadVirtual of exactly size_of(T)
\* bytes at the address given, and when the bytes asked for are all held by
\* the target and the read succeeds, the value's bytes are those bytes, at
\* aligned and unaligned addresses alike.
TypedReadReconstructsPattern ==
  op.name = "read_type_vaddr" =>
    IF op.size = 0
      THEN /\ op.calls = <<>>
           /\ op.res = Err(InvalidSize(0))
      ELSE /\ Len(op.calls) = 1
           /\ op.calls[1].api = "ReadVirtual"
           /\ op.calls[1].args = <<op.arg, op.size>>
           /\ (op.res.ok /\ \A i \in 0..(op.size - 1) : Mapped(op.arg + i)) =>
                op.res.val = [i \in 1..op.size |-> Memory[op.arg + i]]

\* C7 witness: a four-byte value read whole from an address that is no
\* multiple of four
TypedReadUnaligned ==
  /\ op.name = "read_type_vaddr"
  /\ op.size = 4
  /\ op.arg % 4 = 3
  /\ op.res.ok
  /\ \A i \in 0..3 : Mapped(op.arg + i)
  /\ op.res.val = [i \in 1..4 |-> Memory[op.arg + i]]

\* C8: from the same module table, remove_synthetic_module by Name(n) leaves
\* the table (and returns) as removal by Address(b) does, b being the base the
\* engine's lookup gives for n; when n does not resolve the call fails with
\* the engine's error wrapped, issues no removal call and leaves the table as
\* it was (a name with a nul is refused before any call).
RemoveByNameIsRemoveByAddress ==
  (op.name = "remove_synthetic_module" /\ op.arg.tag = "Name") =>
    LET n == op.arg.name
        b == ModuleByName(op.pre, n)
    IN IF HasNul(n)
         THEN /\ op.calls = <<>>
              /\ ~op.res.ok
              /\ modules = op.pre
       ELSE IF b # -1 /\ IsOk(op.h1)
         THEN LET byAddress == remove_synthetic_module(op.pre, Address(b), op.h1, op.h2)
              IN /\ modules = byAddress.modules
                 /\ op.res = byAddress.res
                 /\ op.calls[Len(op.calls)] = byAddress.calls[1]
       ELSE /\ ~op.res.ok
            /\ op.res.err.kind = "WindowsError"
            /\ op.res.err.code = op.calls[1].hr
            /\ \A i \in 1..Len(op.calls) : op.calls[i].api # "RemoveSyntheticModule"
            /\ modules = op.pre

\* C8 witness: a synthetic module removed by its name
RemovedByName ==
  /\ op.name = "remove_synthetic_module"
  /\ op.arg.tag = "Name"
  /\ op.res.ok
  /\ Len(modules) = Len(op.pre) - 1
  /\ HasSynthetic(op.pre, ModuleByName(op.pre, op.arg.name))

\* C9: in every method but print and println the first failing step ends the
\* call with that step's error: no foreign call follows a failed one, a failed
\* foreign call is returned as WindowsError with its code, and no step's entry
\* point is called twice.  add_synthetic_module issues AddSyntheticModule only
\* when evaluation, name encoding, canonicalization and path encoding have
\* all succeeded, and otherwise returns the error of the first of them that
\* failed.
FailFastOps ==
  {"exec", "eval", "get_symbol_address", "get_symbol_name", "add_synthetic_module",
   "remove_synthetic_module", "read_vaddr", "read_type_vaddr", "read_cstr", "msr",
   "reg_indices", "reg_values"}

\* the foreign calls a method has steps for
StepsOf(o) ==
  IF o.name = "add_synthetic_module" THEN 2
  ELSE IF o.name = "remove_synthetic_module" THEN (IF o.arg.tag = "Name" THEN 2 ELSE 1)
  ELSE IF o.name = "reg_indices" THEN Len(o.arg)
  ELSE 1

NoRetryNoContinue ==
  op.name \in FailFastOps =>
    /\ \A i \in 1..(Len(op.calls) - 1) : IsOk(op.calls[i].hr)
    /\ Len(op.calls) <= StepsOf(op)
    /\ \A i \in 1..Len(op.calls) : \A j \in 1..Len(op.calls) :
         (i # j /\ op.name # "reg_indices") => op.calls[i].api # op.calls[j].api
    /\ (op.calls # <<>> /\ ~IsOk(op.calls[Len(op.calls)].hr)) =>
         op.res = Err(WindowsError(op.calls[Len(op.calls)].hr))
    /\ op.res.ok => AllOk(op.calls)
    /\ op.name = "add_synthetic_module" =>
         LET evaluated == ~HasNul(op.expr) /\ IsOk(op.h1) /\ EvalExpr(op.expr) # -1
             named == ~HasNul(op.modname)
             resolved == PathExists(op.path)
             encoded == IsText(Canonical(op.path)) /\ ~HasNul(Canonical(op.path))
             registered == \E i \in 1..Len(op.calls) : op.calls[i].api = "AddSyntheticModule"
         IN /\ registered <=> (evaluated /\ named /\ resolved /\ encoded)
            /\ HasNul(op.expr) => (op.calls = <<>> /\ op.res.err.kind = "InvalidString")
            /\ (~HasNul(op.expr) /\ ~evaluated) =>
                 (Len(op.calls) = 1 /\ op.res.err.kind = "WindowsError")
            /\ (evaluated /\ ~named) =>
                 (Len(op.calls) = 1 /\ op.res = Err(InvalidString(NulPos(op.modname), op.modname)))
            /\ (evaluated /\ named /\ ~resolved) =>
                 (Len(op.calls) = 1 /\ op.res = Err(IoError))
            /\ (evaluated /\ named /\ resolved /\ ~encoded) =>
                 (Len(op.calls) = 1 /\ op.res = Err(DbgGeneralError("Invalid Image Path")))
            /\ ~registered => modules = op.pre

\* C9 witness: add_synthetic_module stopped by a path that does not resolve,
\* after a successful evaluation and with nothing registered
AddStoppedAtPath ==
  /\ op.name = "add_synthetic_module"
  /\ Len(op.calls) = 1
  /\ IsOk(op.calls[1].hr)
  /\ op.res = Err(IoError)
  /\ modules = op.pre

\* the calls of the listing so far, by kind
IsLookup(c) == c.api = "GetModuleByIndex"
IsNameQuery(c) == c.api = "GetNameByOffset"
IsNormalOutput(c) == c.api = "Output" /\ c.args[1] = DEBUG_OUTPUT_NORMAL
IsModuleLine(c) ==
  /\ IsNormalOutput(c)
  /\ Len(c.args[2]) >= Len(ModuleLinePrefix)
  /\ SubSeq(c.args[2], 1, Len(ModuleLinePrefix)) = ModuleLinePrefix
IsFinishedLine(c) == IsNormalOutput(c) /\ c.args[2] = FinishedLine \o <<10>>

\* a module of the target is unloaded when its name carries the marker
UnloadedModule(m) == Contains(from_utf8_lossy(SymbolAt(m.base)), Unloaded)
CountUnloaded == Cardinality({i \in 1..Len(modules) : UnloadedModule(modules[i])})
CountLoaded == Len(modules) - CountUnloaded

\* C10: the listing looks up indices 0, 1, 2, ... in order, none skipped or
\* repeated, stops at the first lookup that fails and returns S_OK; when the
\* target holds N loaded and M unloaded modules, the lookup first fails at
\* index N + M and the engine answers every name query, it makes N + M turns
\* and sends exactly N module lines, none with the unloaded marker, and then
\* one closing line.
EnumerationListsLoadedModules ==
  (cmd.pc = "done" /\ dbg # <<>>) =>
    LET looks == SelectSeq(cmd.log, IsLookup)
        names == SelectSeq(cmd.log, IsNameQuery)
        outs == SelectSeq(cmd.log, IsNormalOutput)
        lines == SelectSeq(cmd.log, IsModuleLine)
    IN /\ Len(looks) >= 1
       /\ \A i \in 1..Len(looks) :
            /\ looks[i].args = <<i - 1>>
            /\ IsOk(looks[i].hr) <=> i < Len(looks)
       /\ cmd.status = <<S_OK>>
       /\ (Len(looks) - 1 = Len(modules) /\ AllOk(names)) =>
            /\ Len(looks) - 1 = CountLoaded + CountUnloaded
            /\ Len(lines) = CountLoaded
            /\ \A i \in 1..Len(lines) : ~Contains(lines[i].args[2], Unloaded)
            /\ Len(outs) = CountLoaded + 1
            /\ IsFinishedLine(outs[Len(outs)])

\* an output call whose text is the "[dbg] Error: ..." line of list_modules
IsErrorReport(c) ==
  /\ c.api = "Output"
  /\ Len(c.args[2]) >= Len(ErrorLinePrefix)
  /\ SubSeq(c.args[2], 1, Len(ErrorLinePrefix)) = ErrorLinePrefix

\* C11: whenever list_modules has returned E_ABORT, an output call carrying
\* the error was issued earlier in that invocation; and it returns S_OK
\* exactly when Dbg::new and wrap both succeeded (wrap returns Ok on every
\* path, so: exactly when the facade was built).
AbortOnlyAfterErrorReported ==
  cmd.pc = "done" =>
    /\ cmd.status \in {<<S_OK>>, <<E_ABORT>>}
    /\ cmd.status = <<E_ABORT>> => \E i \in 1..Len(cmd.log) : IsErrorReport(cmd.log[i])
    /\ cmd.status = <<S_OK>> <=> Len(dbg) = 1

\* C12: read_vaddr issues one ReadVirtual and, when the engine succeeds,
\* returns Ok with the count the engine reported, short or not, the buffer
\* holding that many bytes of the target followed by what it held before;
\* read_type_vaddr of a non-empty T returns Ok whenever the engine's read
\* succeeds, its value being the bytes the engine wrote followed by zeros,
\* and fails only with the engine's error wrapped.
PartialReadsAreNotErrors ==
  /\ op.name = "read_vaddr" =>
       LET n == Readable(op.arg, op.len)
       IN /\ Len(op.calls) = 1
          /\ op.calls[1].api = "ReadVirtual"
          /\ op.res.ok <=> IsOk(op.calls[1].hr)
          /\ op.res.ok =>
               /\ op.res.val = n
               /\ op.buffer = [i \in 1..op.len |->
                                 IF i <= n THEN Memory[op.arg + i] ELSE 0]
          /\ ~op.res.ok => op.res.err = WindowsError(op.calls[1].hr)
  /\ (op.name = "read_type_vaddr" /\ op.size > 0) =>
       LET n == Readable(op.arg, op.size)
       IN /\ Len(op.calls) = 1
          /\ op.res.ok <=> IsOk(op.calls[1].hr)
          /\ op.res.ok =>
               op.res.val = [i \in 1..op.size |->
                               IF i <= n THEN Memory[op.arg + i] ELSE 0]
          /\ ~op.res.ok => op.res.err = WindowsError(op.calls[1].hr)

\* C12 witness: a four-byte value read at 13, where the target holds two
\* bytes before a hole: Ok, the two bytes and two zeros
TypedReadShort ==
  /\ op.name = "read_type_vaddr"
  /\ op.size = 4
  /\ op.arg = 13
  /\ Readable(op.arg, op.size) = 2
  /\ op.res.ok
  /\ op.res.val = <<8, 9, 0, 0>>
====
